---- MODULE Spec2Model ----
(***************************************************************************)
(* In-place transposition of a square matrix stored as a flat row-major    *)
(* buffer: bench-transpose.cpp.  One benchmark function runs per           *)
(* behaviour; every swap of two buffer slots is one step.                  *)
(***************************************************************************)
EXTENDS Integers, Sequences, FiniteSets, TLC

\* ---- bounds of the model ------------------------------------------------
MaxN == 12          \* largest matrix dimension N
MaxB == 4           \* block widths 1..MaxB are tried next to the source's 64
MaxInnerB == 2      \* two-level tilings (b, 2b), b in 1..MaxInnerB, next to (4, 1040)
MaxIters == 2       \* iterations of the benchmark loop `for (auto _ : state)`
MaxPadN == 130      \* largest N handed to pad() in SpecPad

\* ---- constants of the program -------------------------------------------
PAD_DEFAULT == 47   \* #define PAD 47
LINE == 64          \* the literal 64 of pad()
BLOCK_B == 64       \* int B = 64 in BM_Transpose_Block
BLOCK2_B == 4       \* int B = 4 in BM_Transpose_Block2
BLOCK2_B2 == 1040   \* int B2 = 1040 in BM_Transpose_Block2
THRESHOLD == 4      \* if (n <= 4) in transpose_rec

VARIABLES
  alg,      \* which function runs: "Row", "Block", "Block2", "Rec", "Pad"
  pc,       \* position in that function
  PAD,      \* the PAD macro (compile-time configuration)
  fill,     \* "ones": the source's fill; "distinct": every slot labelled
  N, N2,    \* state.range(0) and pad(N)
  B, B2,    \* tile widths
  m,        \* the buffer, a function on 0 .. len-1
  x, y, k, l, i, j,   \* loop variables of the iterative algorithms
  stack,    \* call stack of transpose_rec, innermost frame last
  iters,    \* completed iterations of the benchmark loop
  swaps,    \* history: the swaps of the current iteration, as index pairs
  ret       \* history: the frame of the transpose_rec call that just returned

vars == <<alg, pc, PAD, fill, N, N2, B, B2, m, x, y, k, l, i, j,
          stack, iters, swaps, ret>>

loopvars == <<x, y, k, l, i, j>>
config == <<alg, PAD, fill, N, B, B2>>

\* ---- helpers ------------------------------------------------------------

\* mutant: the outer reduction modulo 64 is forgotten
pad_NoReduce(n) ==
  n + (IF PAD # 0 THEN (LINE + PAD - (n % LINE)) ELSE 0)

\* int pad(int N)
pad(n) ==
  n + (IF PAD # 0 THEN (LINE + PAD - (n % LINE)) % LINE ELSE 0)

\* the index expression i*N2+j
At(stride, row, col) == row * stride + col

\* mutant: the second element is overwritten with itself, the first value is lost
Swap_Copy(buf, a, b) == [buf EXCEPT ![a] = buf[b]]

\* std::swap(m[a], m[b])
Swap(buf, a, b) == [buf EXCEPT ![a] = buf[b], ![b] = buf[a]]

\* vi m(len, 1).  The fill "distinct" makes every move visible: the logical
\* element (r, c) holds r*n + c + 1 whatever the stride, and every padding
\* slot holds a value of its own above n*n
Fill(len, stride, n, kind) ==
  [idx \in 0 .. (len - 1) |->
     IF kind = "distinct"
       THEN IF idx % stride < n
              THEN (idx \div stride) * n + (idx % stride) + 1
              ELSE n * n + idx + 1
       ELSE 1]

NoBuffer == Fill(0, 1, 0, "ones")
NoFrame == [n |-> 0]

\* row stride of the running algorithm (transpose_rec uses N itself)
Stride == IF alg = "Rec" THEN N ELSE N2

BufLen == Stride * N

Original == Fill(BufLen, Stride, N, fill)

BlockWidths == (1 .. MaxB) \cup {BLOCK_B}
Block2Configs == {<<BLOCK2_B, BLOCK2_B2>>} \cup {<<b, 2 * b>> : b \in 1 .. MaxInnerB}
PadChoices == {0, PAD_DEFAULT}

\* ---- initial states -----------------------------------------------------

Idle ==
  /\ pc = "start"
  /\ N2 = 0
  /\ m = NoBuffer
  /\ x = 0 /\ y = 0 /\ k = 0 /\ l = 0 /\ i = 0 /\ j = 0
  /\ stack = <<>>
  /\ iters = 0
  /\ swaps = <<>>
  /\ ret = NoFrame

Init ==
  /\ Idle
  /\ alg \in {"Row", "Block", "Block2", "Rec"}
  /\ N \in 1 .. MaxN
  /\ fill \in {"ones", "distinct"}
  /\ PAD \in (IF alg = "Rec" THEN {PAD_DEFAULT} ELSE PadChoices)
  /\ \E tile \in (CASE alg = "Block" -> {<<b, 0>> : b \in BlockWidths}
                    [] alg = "Block2" -> Block2Configs
                    [] OTHER -> {<<0, 0>>}) :
        B = tile[1] /\ B2 = tile[2]

InitPad ==
  /\ Idle
  /\ alg = "Pad"
  /\ N \in 1 .. MaxPadN
  /\ PAD \in 0 .. (LINE - 1)
  /\ fill = "ones"
  /\ B = 0 /\ B2 = 0

\* ---- pad ----------------------------------------------------------------

\* a call pad(N) on its own
PadCall ==
  /\ alg = "Pad" /\ pc = "start"
  /\ N2' = pad(N)
  /\ pc' = "done"
  /\ UNCHANGED <<config, m, loopvars, stack, iters, swaps, ret>>

\* ---- function entry of the three padded benchmarks ----------------------

\* int N = state.range(0); int N2 = pad(N); vi m(N2*N, 1);
BM_Enter ==
  /\ alg \in {"Row", "Block", "Block2"} /\ pc = "start"
  /\ N2' = pad(N)
  /\ m' = Fill(pad(N) * N, pad(N), N, fill)
  /\ pc' = "loop"
  /\ UNCHANGED <<config, loopvars, stack, iters, swaps, ret>>

\* vi m(N*N, 1);
BM_Rec_Enter ==
  /\ alg = "Rec" /\ pc = "start"
  /\ m' = Fill(N * N, N, N, fill)
  /\ pc' = "loop"
  /\ UNCHANGED <<config, N2, loopvars, stack, iters, swaps, ret>>

\* the benchmark loop ends
BM_Exit ==
  /\ alg \in {"Row", "Block", "Block2", "Rec"} /\ pc = "loop"
  /\ iters >= MaxIters
  /\ pc' = "done"
  /\ UNCHANGED <<config, N2, m, loopvars, stack, iters, swaps, ret>>

\* one swap(m[a], m[b]), recorded in the history
DoSwap(a, b) ==
  /\ m' = Swap(m, a, b)
  /\ swaps' = Append(swaps, <<a, b>>)

\* the body of the benchmark loop is finished
EndIteration ==
  /\ pc' = "loop"
  /\ iters' = iters + 1

\* ---- BM_Transpose_Row ---------------------------------------------------

\* for (auto _ : state) { for (int i=0; ...
BM_Row_Loop ==
  /\ alg = "Row" /\ pc = "loop" /\ iters < MaxIters
  /\ i' = 0 /\ pc' = "row_i" /\ swaps' = <<>>
  /\ UNCHANGED <<config, N2, m, x, y, k, l, j, stack, iters, ret>>

\* mutant: the inner loop starts at 0 instead of i+1
Row_i_FromZero ==
  /\ alg = "Row" /\ pc = "row_i"
  /\ IF i < N
       THEN j' = 0 /\ pc' = "row_j" /\ UNCHANGED <<i, iters>>
       ELSE EndIteration /\ i' = 0 /\ j' = 0
  /\ UNCHANGED <<config, N2, m, x, y, k, l, stack, swaps, ret>>

\* for (int i=0; i<N; ++i) { for (int j=i+1; ...
Row_i ==
  /\ alg = "Row" /\ pc = "row_i"
  /\ IF i < N
       THEN j' = i + 1 /\ pc' = "row_j" /\ UNCHANGED <<i, iters>>
       ELSE EndIteration /\ i' = 0 /\ j' = 0
  /\ UNCHANGED <<config, N2, m, x, y, k, l, stack, swaps, ret>>

\* for (...; j<N; ++j) swap(m[i*N2+j], m[j*N2+i]);
Row_j ==
  /\ alg = "Row" /\ pc = "row_j"
  /\ IF j < N
       THEN /\ DoSwap(At(N2, i, j), At(N2, j, i))
            /\ j' = j + 1
            /\ UNCHANGED <<i, pc>>
       ELSE /\ i' = i + 1 /\ j' = 0 /\ pc' = "row_i"
            /\ UNCHANGED <<m, swaps>>
  /\ UNCHANGED <<config, N2, x, y, k, l, stack, iters, ret>>

\* ---- BM_Transpose_Block -------------------------------------------------

\* for (auto _ : state) { for (int k=0; ...
BM_Block_Loop ==
  /\ alg = "Block" /\ pc = "loop" /\ iters < MaxIters
  /\ k' = 0 /\ pc' = "blk_k" /\ swaps' = <<>>
  /\ UNCHANGED <<config, N2, m, x, y, l, i, j, stack, iters, ret>>

\* for (int k=0; k<N; k+=B) { for (int i=k; ...
Block_k ==
  /\ alg = "Block" /\ pc = "blk_k"
  /\ IF k < N
       THEN i' = k /\ pc' = "blk_di" /\ UNCHANGED <<k, iters>>
       ELSE EndIteration /\ k' = 0 /\ i' = 0
  /\ UNCHANGED <<config, N2, m, x, y, l, j, stack, swaps, ret>>

\* diagonal: for (int i=k; i<k+B && i<N; ++i) { for (int j=k+1; ...
Block_diag_i ==
  /\ alg = "Block" /\ pc = "blk_di"
  /\ IF i < k + B /\ i < N
       THEN j' = k + 1 /\ pc' = "blk_dj" /\ UNCHANGED <<i, l>>
       ELSE l' = k + B /\ pc' = "blk_l" /\ i' = 0 /\ j' = 0
  /\ UNCHANGED <<config, N2, m, x, y, k, stack, iters, swaps, ret>>

\* for (...; j<k+B && j<N; ++j) swap(m[i*N2+j], m[j*N2+i]);
Block_diag_j ==
  /\ alg = "Block" /\ pc = "blk_dj"
  /\ IF j < k + B /\ j < N
       THEN /\ DoSwap(At(N2, i, j), At(N2, j, i))
            /\ j' = j + 1
            /\ UNCHANGED <<i, pc>>
       ELSE /\ i' = i + 1 /\ j' = 0 /\ pc' = "blk_di"
            /\ UNCHANGED <<m, swaps>>
  /\ UNCHANGED <<config, N2, x, y, k, l, stack, iters, ret>>

\* off-diagonal: for (int l=k+B; l<N; l+=B) { for (int i=k; ...
Block_l ==
  /\ alg = "Block" /\ pc = "blk_l"
  /\ IF l < N
       THEN i' = k /\ pc' = "blk_oi" /\ UNCHANGED <<k, l>>
       ELSE k' = k + B /\ pc' = "blk_k" /\ l' = 0 /\ i' = 0
  /\ UNCHANGED <<config, N2, m, x, y, j, stack, iters, swaps, ret>>

\* for (int i=k; i<k+B && i<N; ++i) { for (int j=l; ...
Block_off_i ==
  /\ alg = "Block" /\ pc = "blk_oi"
  /\ IF i < k + B /\ i < N
       THEN j' = l /\ pc' = "blk_oj" /\ UNCHANGED <<i, l>>
       ELSE l' = l + B /\ pc' = "blk_l" /\ i' = 0 /\ j' = 0
  /\ UNCHANGED <<config, N2, m, x, y, k, stack, iters, swaps, ret>>

\* for (...; j<l+B && j<N; ++j) swap(m[i*N2+j], m[j*N2+i]);
Block_off_j ==
  /\ alg = "Block" /\ pc = "blk_oj"
  /\ IF j < l + B /\ j < N
       THEN /\ DoSwap(At(N2, i, j), At(N2, j, i))
            /\ j' = j + 1
            /\ UNCHANGED <<i, pc>>
       ELSE /\ i' = i + 1 /\ j' = 0 /\ pc' = "blk_oi"
            /\ UNCHANGED <<m, swaps>>
  /\ UNCHANGED <<config, N2, x, y, k, l, stack, iters, ret>>

\* ---- BM_Transpose_Block2 ------------------------------------------------

\* for (auto _ : state) { for (int x=0; ...
BM_Block2_Loop ==
  /\ alg = "Block2" /\ pc = "loop" /\ iters < MaxIters
  /\ x' = 0 /\ pc' = "b2_x" /\ swaps' = <<>>
  /\ UNCHANGED <<config, N2, m, y, k, l, i, j, stack, iters, ret>>

\* for (int x=0; x<N; x+=B2) { for (int k=x; ...
Block2_x ==
  /\ alg = "Block2" /\ pc = "b2_x"
  /\ IF x < N
       THEN k' = x /\ pc' = "b2_k" /\ UNCHANGED <<x, iters>>
       ELSE EndIteration /\ x' = 0 /\ k' = 0
  /\ UNCHANGED <<config, N2, m, y, l, i, j, stack, swaps, ret>>

\* for (int k=x; k<x+B2 && k<N; k+=B) { for (int i=k; ...
Block2_k ==
  /\ alg = "Block2" /\ pc = "b2_k"
  /\ IF k < x + B2 /\ k < N
       THEN i' = k /\ pc' = "b2_di" /\ UNCHANGED <<k, y>>
       ELSE y' = x + B2 /\ pc' = "b2_y" /\ k' = 0 /\ i' = 0
  /\ UNCHANGED <<config, N2, m, x, l, j, stack, iters, swaps, ret>>

\* for (int i=k; i<k+B && i<N; ++i) { for (int j=k+1; ...
Block2_diag_i ==
  /\ alg = "Block2" /\ pc = "b2_di"
  /\ IF i < k + B /\ i < N
       THEN j' = k + 1 /\ pc' = "b2_dj" /\ UNCHANGED <<i, l>>
       ELSE l' = k + B /\ pc' = "b2_l" /\ i' = 0 /\ j' = 0
  /\ UNCHANGED <<config, N2, m, x, y, k, stack, iters, swaps, ret>>

\* mutant: the rows are addressed with N instead of the padded stride N2
Block2_diag_j_UnpaddedStride ==
  /\ alg = "Block2" /\ pc = "b2_dj"
  /\ IF j < k + B /\ j < N
       THEN /\ DoSwap(At(N, i, j), At(N, j, i))
            /\ j' = j + 1
            /\ UNCHANGED <<i, pc>>
       ELSE /\ i' = i + 1 /\ j' = 0 /\ pc' = "b2_di"
            /\ UNCHANGED <<m, swaps>>
  /\ UNCHANGED <<config, N2, x, y, k, l, stack, iters, ret>>

\* for (...; j<k+B && j<N; ++j) swap(m[i*N2+j], m[j*N2+i]);
Block2_diag_j ==
  /\ alg = "Block2" /\ pc = "b2_dj"
  /\ IF j < k + B /\ j < N
       THEN /\ DoSwap(At(N2, i, j), At(N2, j, i))
            /\ j' = j + 1
            /\ UNCHANGED <<i, pc>>
       ELSE /\ i' = i + 1 /\ j' = 0 /\ pc' = "b2_di"
            /\ UNCHANGED <<m, swaps>>
  /\ UNCHANGED <<config, N2, x, y, k, l, stack, iters, ret>>

\* for (int l=k+B; l<x+B2 && l<N; l+=B) { for (int i=k; ...
Block2_l ==
  /\ alg = "Block2" /\ pc = "b2_l"
  /\ IF l < x + B2 /\ l < N
       THEN i' = k /\ pc' = "b2_oi" /\ UNCHANGED <<k, l>>
       ELSE k' = k + B /\ pc' = "b2_k" /\ l' = 0 /\ i' = 0
  /\ UNCHANGED <<config, N2, m, x, y, j, stack, iters, swaps, ret>>

\* for (int i=k; i<k+B && i<N; ++i) { for (int j=l; ...
Block2_off_i ==
  /\ alg = "Block2" /\ pc = "b2_oi"
  /\ IF i < k + B /\ i < N
       THEN j' = l /\ pc' = "b2_oj" /\ UNCHANGED <<i, l>>
       ELSE l' = l + B /\ pc' = "b2_l" /\ i' = 0 /\ j' = 0
  /\ UNCHANGED <<config, N2, m, x, y, k, stack, iters, swaps, ret>>

\* for (...; j<l+B && j<N; ++j) swap(m[i*N2+j], m[j*N2+i]);
Block2_off_j ==
  /\ alg = "Block2" /\ pc = "b2_oj"
  /\ IF j < l + B /\ j < N
       THEN /\ DoSwap(At(N2, i, j), At(N2, j, i))
            /\ j' = j + 1
            /\ UNCHANGED <<i, pc>>
       ELSE /\ i' = i + 1 /\ j' = 0 /\ pc' = "b2_oi"
            /\ UNCHANGED <<m, swaps>>
  /\ UNCHANGED <<config, N2, x, y, k, l, stack, iters, ret>>

\* for (int y=x+B2; y<N; y+=B2) { for (int k=x; ...
Block2_y ==
  /\ alg = "Block2" /\ pc = "b2_y"
  /\ IF y < N
       THEN k' = x /\ pc' = "b2_yk" /\ UNCHANGED <<x, y>>
       ELSE x' = x + B2 /\ pc' = "b2_x" /\ y' = 0 /\ k' = 0
  /\ UNCHANGED <<config, N2, m, l, i, j, stack, iters, swaps, ret>>

\* for (int k=x; k<x+B2 && k<N; k+=B) { for (int l=y; ...
Block2_y_k ==
  /\ alg = "Block2" /\ pc = "b2_yk"
  /\ IF k < x + B2 /\ k < N
       THEN l' = y /\ pc' = "b2_yl" /\ UNCHANGED <<k, y>>
       ELSE y' = y + B2 /\ pc' = "b2_y" /\ k' = 0 /\ l' = 0
  /\ UNCHANGED <<config, N2, m, x, i, j, stack, iters, swaps, ret>>

\* for (int l=y; l<y+B2 && l<N; l+=B) { for (int i=k; ...
Block2_y_l ==
  /\ alg = "Block2" /\ pc = "b2_yl"
  /\ IF l < y + B2 /\ l < N
       THEN i' = k /\ pc' = "b2_yi" /\ UNCHANGED <<k, l>>
       ELSE k' = k + B /\ pc' = "b2_yk" /\ l' = 0 /\ i' = 0
  /\ UNCHANGED <<config, N2, m, x, y, j, stack, iters, swaps, ret>>

\* for (int i=k; i<k+B && i<N; ++i) { for (int j=l; ...
Block2_y_i ==
  /\ alg = "Block2" /\ pc = "b2_yi"
  /\ IF i < k + B /\ i < N
       THEN j' = l /\ pc' = "b2_yj" /\ UNCHANGED <<i, l>>
       ELSE l' = l + B /\ pc' = "b2_yl" /\ i' = 0 /\ j' = 0
  /\ UNCHANGED <<config, N2, m, x, y, k, stack, iters, swaps, ret>>

\* for (...; j<l+B && j<N; ++j) swap(m[i*N2+j], m[j*N2+i]);
Block2_y_j ==
  /\ alg = "Block2" /\ pc = "b2_yj"
  /\ IF j < l + B /\ j < N
       THEN /\ DoSwap(At(N2, i, j), At(N2, j, i))
            /\ j' = j + 1
            /\ UNCHANGED <<i, pc>>
       ELSE /\ i' = i + 1 /\ j' = 0 /\ pc' = "b2_yi"
            /\ UNCHANGED <<m, swaps>>
  /\ UNCHANGED <<config, N2, x, y, k, l, stack, iters, ret>>

\* ---- transpose_rec and BM_Transpose_Rec ---------------------------------

\* the activation record of a call transpose_rec(N, n, m, i0, j0, i1, j1);
\* entry and marks are history: the buffer at call entry and the length of
\* the swap history at entry and at the return of each sub-call
Frame(n, i0, j0, i1, j1) ==
  [n |-> n, i0 |-> i0, j0 |-> j0, i1 |-> i1, j1 |-> j1,
   at |-> "entry", h |-> 0, i |-> 0, jj |-> 0, j |-> 0, ii |-> 0,
   entry |-> m, marks |-> <<Len(swaps)>>]

Top == stack[Len(stack)]

SetTop(f) == [stack EXCEPT ![Len(stack)] = f]

InRec == alg = "Rec" /\ pc = "rec" /\ stack # <<>>

\* for (auto _ : state) { transpose_rec(N, N, m, 0, 0, 0, 0); }
BM_Rec_Loop ==
  /\ alg = "Rec" /\ pc = "loop" /\ iters < MaxIters
  /\ swaps' = <<>>
  /\ stack' = <<[Frame(N, 0, 0, 0, 0) EXCEPT !.marks = <<0>>]>>
  /\ pc' = "rec"
  /\ ret' = NoFrame
  /\ UNCHANGED <<config, N2, m, loopvars, iters>>

\* if (n <= 4) { if (i0==j0) {...} else {...} } else { int h = n/2; ...
Rec_Test ==
  /\ InRec /\ Top.at = "entry"
  /\ stack' = SetTop(
       IF Top.n <= THRESHOLD
         THEN IF Top.i0 = Top.j0
                THEN [Top EXCEPT !.at = "self_i", !.i = Top.i0]
                ELSE [Top EXCEPT !.at = "cross_i", !.i = Top.i0, !.jj = Top.j1]
         ELSE [Top EXCEPT !.at = "call1", !.h = Top.n \div 2])
  /\ ret' = NoFrame
  /\ UNCHANGED <<config, N2, m, loopvars, iters, swaps, pc>>

\* for (int i=i0; i<i0+n && i<N; ++i) { for (int j=i+1; ...
Rec_self_i ==
  /\ InRec /\ Top.at = "self_i"
  /\ stack' = SetTop(
       IF Top.i < Top.i0 + Top.n /\ Top.i < N
         THEN [Top EXCEPT !.at = "self_j", !.j = Top.i + 1]
         ELSE [Top EXCEPT !.at = "return", !.i = 0, !.j = 0])
  /\ ret' = NoFrame
  /\ UNCHANGED <<config, N2, m, loopvars, iters, swaps, pc>>

\* mutant: the partner is m[j*N+j] instead of m[j*N+i]
Rec_self_j_WrongPartner ==
  /\ InRec /\ Top.at = "self_j"
  /\ IF Top.j < Top.i0 + Top.n /\ Top.j < N
       THEN /\ DoSwap(At(N, Top.i, Top.j), At(N, Top.j, Top.j))
            /\ stack' = SetTop([Top EXCEPT !.j = Top.j + 1])
       ELSE /\ stack' = SetTop([Top EXCEPT !.at = "self_i", !.i = Top.i + 1, !.j = 0])
            /\ UNCHANGED <<m, swaps>>
  /\ ret' = NoFrame
  /\ UNCHANGED <<config, N2, loopvars, iters, pc>>

\* for (...; j<i0+n && j<N; ++j) swap(m[i*N+j], m[j*N+i]);
Rec_self_j ==
  /\ InRec /\ Top.at = "self_j"
  /\ IF Top.j < Top.i0 + Top.n /\ Top.j < N
       THEN /\ DoSwap(At(N, Top.i, Top.j), At(N, Top.j, Top.i))
            /\ stack' = SetTop([Top EXCEPT !.j = Top.j + 1])
       ELSE /\ stack' = SetTop([Top EXCEPT !.at = "self_i", !.i = Top.i + 1, !.j = 0])
            /\ UNCHANGED <<m, swaps>>
  /\ ret' = NoFrame
  /\ UNCHANGED <<config, N2, loopvars, iters, pc>>

\* for (int i=i0, jj=j1; i<i0+n && i<N && jj<N; ++i, ++jj) {
\*   for (int j=j0, ii=i1; ...
Rec_cross_i ==
  /\ InRec /\ Top.at = "cross_i"
  /\ stack' = SetTop(
       IF Top.i < Top.i0 + Top.n /\ Top.i < N /\ Top.jj < N
         THEN [Top EXCEPT !.at = "cross_j", !.j = Top.j0, !.ii = Top.i1]
         ELSE [Top EXCEPT !.at = "return", !.i = 0, !.jj = 0, !.j = 0, !.ii = 0])
  /\ ret' = NoFrame
  /\ UNCHANGED <<config, N2, m, loopvars, iters, swaps, pc>>

\* for (...; j<j0+n && j<N && ii<N; ++j, ++ii) swap(m[i*N+j], m[ii*N+jj]);
Rec_cross_j ==
  /\ InRec /\ Top.at = "cross_j"
  /\ IF Top.j < Top.j0 + Top.n /\ Top.j < N /\ Top.ii < N
       THEN /\ DoSwap(At(N, Top.i, Top.j), At(N, Top.ii, Top.jj))
            /\ stack' = SetTop([Top EXCEPT !.j = Top.j + 1, !.ii = Top.ii + 1])
       ELSE /\ stack' = SetTop([Top EXCEPT !.at = "cross_i", !.i = Top.i + 1,
                                           !.jj = Top.jj + 1, !.j = 0, !.ii = 0])
            /\ UNCHANGED <<m, swaps>>
  /\ ret' = NoFrame
  /\ UNCHANGED <<config, N2, loopvars, iters, pc>>

\* transpose_rec(N, h, m, i0, j0, i1, j1);
Rec_Call1 ==
  /\ InRec /\ Top.at = "call1"
  /\ stack' = Append(SetTop([Top EXCEPT !.at = "call2"]),
                     Frame(Top.h, Top.i0, Top.j0, Top.i1, Top.j1))
  /\ ret' = NoFrame
  /\ UNCHANGED <<config, N2, m, loopvars, iters, swaps, pc>>

\* transpose_rec(N, n-h, m, i0+h, j0+h, i1+h, j1+h);
Rec_Call2 ==
  /\ InRec /\ Top.at = "call2"
  /\ stack' = Append(SetTop([Top EXCEPT !.at = "call3"]),
                     Frame(Top.n - Top.h, Top.i0 + Top.h, Top.j0 + Top.h,
                           Top.i1 + Top.h, Top.j1 + Top.h))
  /\ ret' = NoFrame
  /\ UNCHANGED <<config, N2, m, loopvars, iters, swaps, pc>>

\* transpose_rec(N, n-h, m, i0+h, j0, i1, j1+h);
Rec_Call3 ==
  /\ InRec /\ Top.at = "call3"
  /\ stack' = Append(SetTop([Top EXCEPT !.at = "return"]),
                     Frame(Top.n - Top.h, Top.i0 + Top.h, Top.j0,
                           Top.i1, Top.j1 + Top.h))
  /\ ret' = NoFrame
  /\ UNCHANGED <<config, N2, m, loopvars, iters, swaps, pc>>

\* the innermost call returns to its caller, or to the benchmark loop
Rec_Return ==
  /\ InRec /\ Top.at = "return"
  /\ ret' = Top
  /\ IF Len(stack) = 1
       THEN /\ stack' = <<>>
            /\ EndIteration
       ELSE /\ stack' = [q \in 1 .. (Len(stack) - 1) |->
                           IF q = Len(stack) - 1
                             THEN [stack[q] EXCEPT !.marks = Append(@, Len(swaps))]
                             ELSE stack[q]]
            /\ UNCHANGED <<pc, iters>>
  /\ UNCHANGED <<config, N2, m, loopvars, swaps>>

\* ---- specifications -----------------------------------------------------

Next ==
  \/ BM_Enter
  \/ BM_Rec_Enter
  \/ BM_Exit
  \/ BM_Row_Loop \/ Row_i \/ Row_j
  \/ BM_Block_Loop \/ Block_k \/ Block_diag_i \/ Block_diag_j
  \/ Block_l \/ Block_off_i \/ Block_off_j
  \/ BM_Block2_Loop \/ Block2_x \/ Block2_k \/ Block2_diag_i \/ Block2_diag_j
  \/ Block2_l \/ Block2_off_i \/ Block2_off_j
  \/ Block2_y \/ Block2_y_k \/ Block2_y_l \/ Block2_y_i \/ Block2_y_j
  \/ BM_Rec_Loop \/ Rec_Test \/ Rec_self_i \/ Rec_self_j
  \/ Rec_cross_i \/ Rec_cross_j
  \/ Rec_Call1 \/ Rec_Call2 \/ Rec_Call3 \/ Rec_Return

Spec == Init /\ [][Next]_vars

NextPad == PadCall

SpecPad == InitPad /\ [][NextPad]_vars

\* ---- properties ---------------------------------------------------------

Cells == (0 .. (N - 1)) \X (0 .. (N - 1))

\* the logical N x N region of buf is the transpose of that of orig
IsTransposeOf(buf, orig) ==
  \A rc \in Cells :
    buf[At(Stride, rc[1], rc[2])] = orig[At(Stride, rc[2], rc[1])]

\* the logical N x N regions agree
SameLogical(buf, orig) ==
  \A rc \in Cells :
    buf[At(Stride, rc[1], rc[2])] = orig[At(Stride, rc[1], rc[2])]

\* one pass of the running algorithm has just finished
AfterPass(a, cnt) == alg = a /\ pc = "loop" /\ iters = cnt

\* the logical N x N matrix held in buf under the given stride
LogicalOf(buf, stride) ==
  [rc \in Cells |-> buf[At(stride, rc[1], rc[2])]]

\* the loop nest of BM_Transpose_Row as a function of the buffer:
\* for (i=0; i<N; ++i) for (j=i+1; j<N; ++j) swap(m[i*N2+j], m[j*N2+i]);
RECURSIVE RowFrom(_, _, _, _)
RowFrom(buf, stride, ii, jj) ==
  IF ii >= N THEN buf
  ELSE IF jj >= N THEN RowFrom(buf, stride, ii + 1, ii + 2)
  ELSE RowFrom(Swap(buf, At(stride, ii, jj), At(stride, jj, ii)), stride, ii, jj + 1)

\* what BM_Transpose_Row leaves in its own buffer for this N, PAD and fill
RowResult ==
  LogicalOf(RowFrom(Fill(pad(N) * N, pad(N), N, fill), pad(N), 0, 1), pad(N))

\* the tile widths are the ones written in the source
SourceTiles ==
  /\ alg = "Block" => B = BLOCK_B
  /\ alg = "Block2" => B = BLOCK2_B /\ B2 = BLOCK2_B2

\* the buffer slots read or written by swaps lo+1 .. hi of the history
Touched(lo, hi) ==
  {swaps[q][1] : q \in (lo + 1) .. hi} \cup {swaps[q][2] : q \in (lo + 1) .. hi}

\* ---- C1 -----------------------------------------------------------------
\* C1: after one pass over the same input and the same N, each of the four
\* algorithms (tile widths as in the source) leaves in the logical N x N
\* region exactly what BM_Transpose_Row leaves there, so all four agree.
C1_AllAgreeWithRow ==
  (pc = "loop" /\ iters = 1 /\ SourceTiles)
    => LogicalOf(m, Stride) = RowResult

\* ---- C2 -----------------------------------------------------------------
\* C2: after one pass of BM_Transpose_Block, for every N and every block
\* width B, element (i,j) holds the original element (j,i).
C2_BlockTransposes ==
  AfterPass("Block", 1) => IsTransposeOf(m, Original)

\* ---- C3 -----------------------------------------------------------------
\* C3: after transpose_rec(N, N, m, 0, 0, 0, 0) on the unpadded buffer,
\* element (i,j) holds the original element (j,i), for every N.
C3_RecTransposes ==
  AfterPass("Rec", 1) => IsTransposeOf(m, Original)

\* ---- C4 -----------------------------------------------------------------
RowPairs == {rc \in Cells : rc[1] < rc[2]}

RowSwapOf(rc) == <<At(N2, rc[1], rc[2]), At(N2, rc[2], rc[1])>>

\* C4: one pass of BM_Transpose_Row consists of N(N-1)/2 swaps, one of
\* (i,j) with (j,i) for every pair i < j and nothing else; the padding is
\* not written; afterwards element (i,j) holds the original element (j,i);
\* and with N = 3 and stride 3 the buffer 1..9 becomes 1,4,7,2,5,8,3,6,9.
C4_RowSwapsEachPairOnce ==
  AfterPass("Row", 1) =>
    /\ Len(swaps) = (N * (N - 1)) \div 2
    /\ \A rc \in RowPairs :
         Cardinality({q \in 1 .. Len(swaps) : swaps[q] = RowSwapOf(rc)}) = 1
    /\ \A q \in 1 .. Len(swaps) : \E rc \in RowPairs : swaps[q] = RowSwapOf(rc)
    /\ IsTransposeOf(m, Original)
    /\ \A idx \in DOMAIN m : idx % N2 >= N => m[idx] = Original[idx]
    /\ (N = 3 /\ N2 = 3 /\ fill = "distinct")
         => /\ Original = [idx \in 0 .. 8 |-> <<1, 2, 3, 4, 5, 6, 7, 8, 9>>[idx + 1]]
            /\ m = [idx \in 0 .. 8 |-> <<1, 4, 7, 2, 5, 8, 3, 6, 9>>[idx + 1]]

C4_Witness ==
  /\ AfterPass("Row", 1)
  /\ N = 3 /\ N2 = 3 /\ fill = "distinct"
  /\ swaps = <<<<1, 3>>, <<2, 6>>, <<5, 7>>>>
  /\ m[1] = 4 /\ m[3] = 2

\* ---- C5 -----------------------------------------------------------------
\* C5: after two passes of the same algorithm, whichever of the four it is,
\* every element of the logical N x N region has its original value again.
C5_TwiceIsIdentity ==
  (alg \in {"Row", "Block", "Block2", "Rec"} /\ pc = "loop" /\ iters = 2)
    => SameLogical(m, Original)

\* two passes of transpose_rec on 7 x 7 distinct values are over
C5_Witness ==
  /\ AfterPass("Rec", 2)
  /\ N = 7 /\ fill = "distinct"
  /\ Len(swaps) > 0
  /\ m[At(N, 0, 6)] = 7

\* ---- C6 -----------------------------------------------------------------
\* C6: every index a swap reads or writes is inside the buffer and denotes
\* a cell (row, col) with row < N and col < N, never a padding column.
C6_AccessesInLogicalRegion ==
  \A q \in 1 .. Len(swaps) : \A t \in 1 .. 2 :
    /\ 0 <= swaps[q][t] /\ swaps[q][t] < BufLen
    /\ swaps[q][t] \div Stride < N
    /\ swaps[q][t] % Stride < N

\* a padded two-level pass with a partial trailing tile has reached the last
\* row and the last column
C6_Witness ==
  /\ AfterPass("Block2", 1)
  /\ B = BLOCK2_B /\ B2 = BLOCK2_B2
  /\ N = 10 /\ N2 = 47
  /\ \E q \in 1 .. Len(swaps) : swaps[q] = <<At(N2, 8, 9), At(N2, 9, 8)>>

C8_DiagonalFixed ==
  (alg \in {"Row", "Block", "Block2", "Rec"} /\ pc # "start") =>
    \A r \in 0 .. (N - 1) :
      m[At(Stride, r, r)] = Original[At(Stride, r, r)]

\* in the middle of a block pass a diagonal element has been swapped with itself
C8_Witness ==
  /\ alg = "Block" /\ pc = "blk_dj" /\ fill = "distinct" /\ N >= 3
  /\ \E q \in 1 .. Len(swaps) :
       swaps[q][1] = swaps[q][2] /\ swaps[q][1] = At(N2, 1, 1)

\* ---- C9 -----------------------------------------------------------------
\* C9: when a call of transpose_rec on a cross pair (i0 # j0) returns, each
\* element (i0+a, j0+b) holds what (i1+b, j1+a) held at call entry and the
\* other way round, for all a, b below n, whatever n is.
C9_CrossCallExchangesBlocks ==
  (alg = "Rec" /\ ret.n > 0 /\ ret.i0 # ret.j0) =>
    \A a \in 0 .. (ret.n - 1) : \A b \in 0 .. (ret.n - 1) :
      /\ m[At(N, ret.i0 + a, ret.j0 + b)] = ret.entry[At(N, ret.i1 + b, ret.j1 + a)]
      /\ m[At(N, ret.i1 + b, ret.j1 + a)] = ret.entry[At(N, ret.i0 + a, ret.j0 + b)]

\* ---- C10 ----------------------------------------------------------------
\* C10: when a call of transpose_rec with n > 4 returns, the buffer slots
\* touched by its three sub-calls are pairwise disjoint.
C10_SubcallsDisjoint ==
  (alg = "Rec" /\ ret.n > THRESHOLD) =>
    LET t1 == Touched(ret.marks[1], ret.marks[2])
        t2 == Touched(ret.marks[2], ret.marks[3])
        t3 == Touched(ret.marks[3], ret.marks[4])
    IN  /\ t1 \cap t2 = {}
        /\ t1 \cap t3 = {}
        /\ t2 \cap t3 = {}

====
